---- MODULE Spec2Model ----
(***************************************************************************)
(* Model of src/mifare.js: the Mifare card session (class Mifare), the     *)
(* sector object (class Sector) with its block cache and key ids, the      *)
(* access-condition codec of the sector trailer, and the CRC-8 checksum.   *)
(*                                                                         *)
(* A ByteString is a sequence of bytes (0..255).  The JavaScript array     *)
(* this.blocks is a function whose domain is the set of indices that have  *)
(* been assigned; an index outside the domain reads as undefined.  The     *)
(* two-element array this.keyid (positions 0 and 1) is the tuple keyid     *)
(* (positions 1 and 2).                                                    *)
(*                                                                         *)
(* Every operation is one action.  The reader's answers to the commands    *)
(* an operation sends are inputs of the action.  Three history variables   *)
(* record the last operation: call (its name and arguments), sent (the     *)
(* command APDUs it handed to the reader, in order) and ret (whether it    *)
(* threw, and its return value).                                           *)
(***************************************************************************)
EXTENDS Integers, Sequences, FiniteSets, TLC

VARIABLES no, keyid, blocks, SW, call, sent, ret

vars == <<no, keyid, blocks, SW, call, sent, ret>>

-----------------------------------------------------------------------------
(* Program constants *)

\* Mifare.KEY_A = 0x60
KEY_A == 96

\* Mifare.KEY_B = 0x61
KEY_B == 97

\* the status word every asserted command expects, 0x9000
SW_OK == 36864

\* Mifare.PUBLICKEYS
PUBLICKEYS ==
  << <<255, 255, 255, 255, 255, 255>>,    \* FFFFFFFFFFFF  Empty cards
     <<160, 161, 162, 163, 164, 165>>,    \* A0A1A2A3A4A5  MAD Key A
     <<176, 177, 178, 179, 180, 181>>,    \* B0B1B2B3B4B5  Default Key B
     <<211, 247, 211, 247, 211, 247>> >>  \* D3F7D3F7D3F7  NDEF Key A

\* Sector.MASK = [ 0x00E0EE, 0x00D0DD, 0x00B0BB, 0x007077 ]
MASK == << 57582, 53469, 45243, 28791 >>

\* var polynom = 0x1d
polynom == 29

\* var crc = 0xC7
crcStart == 199

-----------------------------------------------------------------------------
(* JavaScript integer operators on the values the program applies them to *)

RECURSIVE Pow2(_)
Pow2(n) == IF n = 0 THEN 1 ELSE 2 * Pow2(n - 1)

\* a & b for b >= 0; a may be negative (two's complement: \div floors, % is
\* non-negative), which is how ~c reaches the masks of setACforBlock
RECURSIVE BitAnd(_, _)
BitAnd(a, b) ==
  IF b = 0 THEN 0
  ELSE (a % 2) * (b % 2) + 2 * BitAnd(a \div 2, b \div 2)

\* a | b for a, b >= 0
RECURSIVE BitOr(_, _)
BitOr(a, b) ==
  IF a = 0 THEN b
  ELSE IF b = 0 THEN a
  ELSE (IF a % 2 = 1 \/ b % 2 = 1 THEN 1 ELSE 0) + 2 * BitOr(a \div 2, b \div 2)

\* a ^ b for a, b >= 0
RECURSIVE BitXor(_, _)
BitXor(a, b) ==
  IF a = 0 THEN b
  ELSE IF b = 0 THEN a
  ELSE ((a + b) % 2) + 2 * BitXor(a \div 2, b \div 2)

\* ~a
BitNot(a) == -a - 1

\* a << n and a >> n for a >= 0 and results below 2^31
Shl(a, n) == a * Pow2(n)
Shr(a, n) == a \div Pow2(n)

-----------------------------------------------------------------------------
(* ByteString / ByteBuffer primitives *)

\* d.bytes(offset, count)
Bytes(d, offset, count) == SubSeq(d, offset + 1, offset + count)

\* d.bytes(offset)
BytesFrom(d, offset) == SubSeq(d, offset + 1, Len(d))

\* d.toUnsigned(): big-endian
RECURSIVE ToUnsigned(_)
ToUnsigned(d) ==
  IF d = <<>> THEN 0
  ELSE 256 * ToUnsigned(SubSeq(d, 1, Len(d) - 1)) + d[Len(d)]

\* ByteString.valueOf(v, n): the n low-order bytes of v, big-endian
ValueOf(v, n) == [k \in 1..n |-> (v \div Pow2(8 * (n - k))) % 256]

\* a.concat(b), bb.append(b)
Concat(a, b) == a \o b

-----------------------------------------------------------------------------
(* Mifare.crc8 *)

\* a round that shifts right and tests the low bit (the mirrored CRC)
crc8RoundShiftRight(crc) ==
  LET msb     == BitAnd(crc, 1)
      shifted == Shr(crc, 1)
  IN  IF msb # 0 THEN BitXor(shifted, polynom) ELSE shifted

\* one round of the inner loop: msb = crc & 0x80; crc = (crc << 1) & 0xFF;
\* if (msb) crc ^= polynom
crc8Round(crc) ==
  LET msb     == BitAnd(crc, 128)
      shifted == BitAnd(Shl(crc, 1), 255)
  IN  IF msb # 0 THEN BitXor(shifted, polynom) ELSE shifted

\* for (var b = 0; b < 8; b++): the rounds still to run
RECURSIVE crc8Rounds(_, _)
crc8Rounds(crc, b) ==
  IF b = 0 THEN crc
  ELSE LET next == crc8Round(crc)
       IN  IF next \in 0..255 THEN crc8Rounds(next, b - 1) ELSE next

\* the outer loop, over data.byteAt(0) .. data.byteAt(length - 1); crc stays
\* within a byte, and testing that computes each value before the next
RECURSIVE crc8From(_, _)
crc8From(crc, data) ==
  IF data = <<>> THEN crc
  ELSE LET next == crc8Rounds(BitXor(crc, Head(data)), 8)
       IN  IF next \in 0..255 THEN crc8From(next, Tail(data)) ELSE next

crc8(data) == crc8From(crcStart, data)

-----------------------------------------------------------------------------
(* The reader transport (card.sendApdu) and the Mifare command set.        *)
(* The outcome of a call is a record: thrown (the call raised an error),   *)
(* sent (the APDUs handed to the reader, each with the status word the     *)
(* reader answered), sw (card.SW afterwards) and                           *)
(* value (the return value, as a sequence of zero or one element).  An     *)
(* optional argument is likewise a sequence of zero or one element.        *)

Apdu(ins, p1, p2, data, le) ==
  [cla |-> 255, ins |-> ins, p1 |-> p1, p2 |-> p2, data |-> data, le |-> le]

\* an error raised before any command is sent (a failed assert, a TypeError)
Raise(sw0) == [thrown |-> TRUE, sent |-> <<>>, sw |-> sw0, value |-> <<>>]

\* card.sendApdu(cla, ins, p1, p2, data|le, expected): sends the command; r is
\* the reader's answer; raises when expected is given and r.sw is not in it
sendApdu(apdu, expected, r) ==
  [thrown |-> expected # {} /\ r.sw \notin expected,
   sent   |-> <<[cmd |-> apdu, sw |-> r.sw]>>,
   sw     |-> r.sw,
   value  |-> IF expected # {} /\ r.sw \notin expected THEN <<>> ELSE <<r.data>>]

\* Mifare.prototype.loadKey
Mifare_loadKey(kid, key, sw0, r) ==
  IF Len(key) # 6 THEN Raise(sw0)
  ELSE IF (kid = 96) \/ (kid = 97)
       THEN [sendApdu(Apdu(130, 0, kid, key, 0), {SW_OK}, r) EXCEPT !.value = <<>>]
       ELSE [sendApdu(Apdu(130, 32, kid, key, 0), {SW_OK}, r) EXCEPT !.value = <<>>]

\* Mifare.prototype.readBlock
Mifare_readBlock(block, r) ==
  sendApdu(Apdu(176, Shr(block, 8), BitAnd(block, 255), <<>>, 16), {SW_OK}, r)

\* Mifare.prototype.updateBlock; data is <<>> when the caller passed undefined
Mifare_updateBlock(block, data, sw0, r) ==
  IF data = <<>> THEN Raise(sw0)
  ELSE IF Len(data[1]) # 16 THEN Raise(sw0)
  ELSE sendApdu(Apdu(214, Shr(block, 8), BitAnd(block, 255), data[1], 0), {SW_OK}, r)

\* Mifare.prototype.authenticate
Mifare_authenticate(block, keytype, kid, r) ==
  LET bb == Concat(Concat(Concat(<<1>>, ValueOf(block, 2)), <<keytype>>),
                   IF (kid # 96) /\ (kid # 97) THEN <<kid>> ELSE <<1>>)
      e  == sendApdu(Apdu(134, 0, 0, bb, 0), {}, r)
  IN  [e EXCEPT !.value = <<r.sw = SW_OK>>]

-----------------------------------------------------------------------------
(* Sector: the operations as functions of the sector's state *)

\* this.blocks[i] = d
Put(blks, i, d) ==
  [j \in (DOMAIN blks) \cup {i} |-> IF j = i THEN d ELSE blks[j]]

\* an outcome together with the block cache it leaves
With(e, blks) ==
  [thrown |-> e.thrown, sent |-> e.sent, sw |-> e.sw, value |-> e.value,
   blocks |-> blks]

\* this.keyid[keytype - Mifare.KEY_A]
KeyIdFor(keytype) == keyid[(keytype - KEY_A) + 1]

\* Sector.prototype.read, on the cache blks
Sector_read(blks, block, sw0, r) ==
  IF ~(block >= 0) \/ ~(block <= 3)
  THEN With(Raise(sw0), blks)
  ELSE LET e == Mifare_readBlock(Shl(no, 2) + block, r)
       IN  With(e, IF e.thrown THEN blks ELSE Put(blks, block, e.value[1]))

\* Sector.prototype.update: with data given the block is cached before the
\* command is sent
Sector_update(blks, block, dataArg, sw0, r) ==
  LET data == IF dataArg = <<>>
              THEN (IF block \in DOMAIN blks THEN <<blks[block]>> ELSE <<>>)
              ELSE dataArg
      blks1 == IF dataArg = <<>> THEN blks ELSE Put(blks, block, dataArg[1])
      e    == Mifare_updateBlock(Shl(no, 2) + block, data, sw0, r)
  IN  With([e EXCEPT !.value = <<>>], blks1)

\* Sector.prototype.authenticate
Sector_authenticate(block, keytype, r) ==
  Mifare_authenticate(Shl(no, 2) + block, keytype, KeyIdFor(keytype), r)

\* authenticatePublic without the return inside the loop: every candidate is
\* tried and the last index that authenticated is returned
RECURSIVE authenticatePublicFromNoStop(_, _, _, _, _)
authenticatePublicFromNoStop(i, block, keytype, sw0, rs) ==
  IF ~(i < Len(PUBLICKEYS))
  THEN [thrown |-> FALSE, sent |-> <<>>, sw |-> sw0, value |-> <<-1>>]
  ELSE LET l == Mifare_loadKey(KeyIdFor(keytype), PUBLICKEYS[i + 1], sw0, rs[i + 1].load)
       IN  IF l.thrown THEN l
           ELSE LET a    == Sector_authenticate(block, keytype, rs[i + 1].auth)
                    rest == authenticatePublicFromNoStop(i + 1, block, keytype, a.sw, rs)
                IN  [rest EXCEPT !.sent = l.sent \o a.sent \o rest.sent,
                                 !.value = IF a.value[1] /\ ~rest.thrown /\ rest.value = <<-1>>
                                           THEN <<i>> ELSE rest.value]

\* Sector.prototype.authenticatePublic: the loop from index i on; rs[i + 1] is
\* the reader's answers to the load key and the authenticate of candidate i
RECURSIVE authenticatePublicFrom(_, _, _, _, _)
authenticatePublicFrom(i, block, keytype, sw0, rs) ==
  IF ~(i < Len(PUBLICKEYS))
  THEN [thrown |-> FALSE, sent |-> <<>>, sw |-> sw0, value |-> <<-1>>]
  ELSE LET l == Mifare_loadKey(KeyIdFor(keytype), PUBLICKEYS[i + 1], sw0, rs[i + 1].load)
       IN  IF l.thrown THEN l
           ELSE LET a == Sector_authenticate(block, keytype, rs[i + 1].auth)
                IN  IF a.value[1]
                    THEN [a EXCEPT !.sent = l.sent \o a.sent, !.value = <<i>>]
                    ELSE LET rest == authenticatePublicFrom(i + 1, block, keytype, a.sw, rs)
                         IN  [rest EXCEPT !.sent = l.sent \o a.sent \o rest.sent]

Sector_authenticatePublic(block, keytype, sw0, rs) ==
  authenticatePublicFrom(0, block, keytype, sw0, rs)

\* Sector.prototype.readAll: the loop from block i on, bb the buffer so far;
\* rr[i + 1] is the reader's answer to the read of block i
RECURSIVE readAllFrom(_, _, _, _, _)
readAllFrom(i, blks, bb, sw0, rr) ==
  IF ~(i < 4)
  THEN With([thrown |-> FALSE, sent |-> <<>>, sw |-> sw0, value |-> <<bb>>], blks)
  ELSE LET e == Sector_read(blks, i, sw0, rr[i + 1])
       IN  IF e.thrown THEN e
           ELSE LET rest == readAllFrom(i + 1, e.blocks, Concat(bb, e.value[1]), e.sw, rr)
                IN  [rest EXCEPT !.sent = e.sent \o rest.sent]

\* readAll with Key B as the default key type
Sector_readAllDefaultKeyB(blks, keytypeArg, ra, rr) ==
  LET keytype == IF keytypeArg = <<>> THEN KEY_B ELSE keytypeArg[1]
      a       == Sector_authenticate(0, keytype, ra)
      e       == readAllFrom(0, blks, <<>>, a.sw, rr)
  IN  [e EXCEPT !.sent = a.sent \o e.sent]

Sector_readAll(blks, keytypeArg, ra, rr) ==
  LET keytype == IF keytypeArg = <<>> THEN KEY_A ELSE keytypeArg[1]
      a       == Sector_authenticate(0, keytype, ra)
      e       == readAllFrom(0, blks, <<>>, a.sw, rr)
  IN  [e EXCEPT !.sent = a.sent \o e.sent]

-----------------------------------------------------------------------------
(* The access-condition codec and the trailer editors.  d is the cached     *)
(* trailer this.blocks[3].                                                  *)

\* the 24-bit field c = d.bytes(6, 3).toUnsigned()
ACField(d) == ToUnsigned(Bytes(d, 6, 3))

\* Sector.MASK[block]; an index outside the array reads as undefined, and
\* c &= undefined leaves 0
MaskAt(block) == IF block \in 0..(Len(MASK) - 1) THEN MASK[block + 1] ELSE 0

\* the expression getACforBlock returns
Sector_getAC(d, block) ==
  LET c == ACField(d)
  IN  Shl(BitAnd(Shr(c, 12 + block), 1), 2) +
      Shl(BitAnd(Shr(c, 0 + block), 1), 1) +
      BitAnd(Shr(c, 4 + block), 1)

\* setACforBlock without c &= Sector.MASK[block]
Sector_encodeACNoMask(c0, block, ac) ==
  LET c2 == BitOr(c0, Shl(BitAnd(Shr(ac, 2), 1), 12 + block) +
                      Shl(BitAnd(Shr(ac, 1), 1), 0 + block) +
                      Shl(BitAnd(ac, 1), 4 + block))
  IN  BitOr(c2, Shl(BitAnd(BitNot(c2), 15), 20) +
                Shl(BitAnd(BitNot(c2), 240), 4) +
                Shl(BitAnd(BitNot(c2), 61440), 4))

\* setACforBlock with the complements taken before the new bits are set
Sector_encodeACStaleComplement(c0, block, ac) ==
  LET c1 == BitAnd(c0, MaskAt(block))
      c2 == BitOr(c1, Shl(BitAnd(Shr(ac, 2), 1), 12 + block) +
                      Shl(BitAnd(Shr(ac, 1), 1), 0 + block) +
                      Shl(BitAnd(ac, 1), 4 + block))
  IN  BitOr(c2, Shl(BitAnd(BitNot(c1), 15), 20) +
                Shl(BitAnd(BitNot(c1), 240), 4) +
                Shl(BitAnd(BitNot(c1), 61440), 4))

\* the field setACforBlock computes from the field c0
Sector_encodeAC(c0, block, ac) ==
  LET c1 == BitAnd(c0, MaskAt(block))
      c2 == BitOr(c1, Shl(BitAnd(Shr(ac, 2), 1), 12 + block) +
                      Shl(BitAnd(Shr(ac, 1), 1), 0 + block) +
                      Shl(BitAnd(ac, 1), 4 + block))
  IN  BitOr(c2, Shl(BitAnd(BitNot(c2), 15), 20) +
                Shl(BitAnd(BitNot(c2), 240), 4) +
                Shl(BitAnd(BitNot(c2), 61440), 4))

\* the trailer setACforBlock stores
Sector_setAC(d, block, ac) ==
  Concat(Bytes(d, 0, 6),
         Concat(ValueOf(Sector_encodeAC(ACField(d), block, ac), 3), BytesFrom(d, 9)))

\* the trailer setKeyA stores
Sector_setKeyA(d, key) == Concat(key, BytesFrom(d, 6))

\* setKeyB keeping d.bytes(0, 9): the key lands one byte early and the
\* trailer loses a byte
Sector_setKeyBFromNine(d, key) == Concat(Bytes(d, 0, 9), key)

\* the trailer setKeyB stores
Sector_setKeyB(d, key) == Concat(Bytes(d, 0, 10), key)

\* the trailer setHeaderDataByte stores
Sector_setHeaderDataByte(d, db) == Concat(Concat(Bytes(d, 0, 9), db), BytesFrom(d, 10))

-----------------------------------------------------------------------------
(* Bounds of the model *)

\* sector numbers 0..MaxSector
MaxSector == 1

\* checksum inputs of up to MaxCrcLen bytes over CrcBytes
MaxCrcLen == 3

\* a cached trailer is followed while its length is within 16 +- MaxSkew
MaxSkew == 1

-----------------------------------------------------------------------------
(* The state after construction, and the operations as actions *)

\* new Sector(mifare, no): this.blocks = [], this.keyid = [0, 1]; card.SW is
\* 0 while no command has been sent
Init ==
  /\ no \in 0..MaxSector
  /\ keyid = <<0, 1>>
  /\ blocks = <<>>
  /\ SW = 0
  /\ call = [op |-> "newSector"]
  /\ sent = <<>>
  /\ ret = [thrown |-> FALSE, value |-> <<>>]

\* new Sector(mifare, 0)
InitSector0 == Init /\ no = 0

\* the history of one call with outcome e
Record(c, e) ==
  /\ call' = c
  /\ sent' = e.sent
  /\ ret' = [thrown |-> e.thrown, value |-> e.value]
  /\ SW' = e.sw

Returns(v) == [thrown |-> FALSE, sent |-> <<>>, sw |-> SW, value |-> v]

LenOk(d) == (Len(d) >= 16 - MaxSkew) /\ (Len(d) <= 16 + MaxSkew)

\* Mifare.crc8(data)
crc8Call(data) ==
  /\ Record([op |-> "crc8", data |-> data], Returns(<<crc8(data)>>))
  /\ UNCHANGED <<no, keyid, blocks>>

\* mifare.loadKey(kid, key)
loadKey(kid, key, r) ==
  /\ Record([op |-> "loadKey", keyid |-> kid, key |-> key],
            Mifare_loadKey(kid, key, SW, r))
  /\ UNCHANGED <<no, keyid, blocks>>

\* sector.setKeyId(kid, keytype)
setKeyId(kid, keytypeArg) ==
  LET keytype == IF keytypeArg = <<>> THEN KEY_A ELSE keytypeArg[1]
  IN  /\ keyid' = [keyid EXCEPT ![(keytype - KEY_A) + 1] = kid]
      /\ Record([op |-> "setKeyId", keyid |-> kid, keytype |-> keytypeArg], Returns(<<>>))
      /\ UNCHANGED <<no, blocks>>

\* sector.read(block)
read(block, r) ==
  LET e == Sector_read(blocks, block, SW, r)
  IN  /\ blocks' = e.blocks
      /\ Record([op |-> "read", block |-> block], e)
      /\ UNCHANGED <<no, keyid>>

\* sector.update(block, data)
update(block, dataArg, r) ==
  LET e == Sector_update(blocks, block, dataArg, SW, r)
  IN  /\ blocks' = e.blocks
      /\ Record([op |-> "update", block |-> block, data |-> dataArg], e)
      /\ UNCHANGED <<no, keyid>>

\* sector.authenticate(block, keytype)
authenticate(block, keytype, r) ==
  /\ Record([op |-> "authenticate", block |-> block, keytype |-> keytype],
            Sector_authenticate(block, keytype, r))
  /\ UNCHANGED <<no, keyid, blocks>>

\* sector.authenticatePublic(block, keytype)
authenticatePublic(block, keytype, rs) ==
  /\ Record([op |-> "authenticatePublic", block |-> block, keytype |-> keytype],
            Sector_authenticatePublic(block, keytype, SW, rs))
  /\ UNCHANGED <<no, keyid, blocks>>

\* sector.readAll(keytype)
readAll(keytypeArg, ra, rr) ==
  LET e == Sector_readAll(blocks, keytypeArg, ra, rr)
  IN  /\ blocks' = e.blocks
      /\ Record([op |-> "readAll", keytype |-> keytypeArg], e)
      /\ UNCHANGED <<no, keyid>>

\* sector.getACforBlock(block): this.blocks[3].bytes raises a TypeError when
\* the trailer is not cached
getACforBlock(block) ==
  /\ Record([op |-> "getACforBlock", block |-> block],
            IF 3 \notin DOMAIN blocks THEN Raise(SW)
            ELSE Returns(<<Sector_getAC(blocks[3], block)>>))
  /\ UNCHANGED <<no, keyid, blocks>>

\* sector.setACforBlock(block, ac)
setACforBlock(block, ac) ==
  /\ Record([op |-> "setACforBlock", block |-> block, ac |-> ac],
            IF 3 \notin DOMAIN blocks THEN Raise(SW) ELSE Returns(<<>>))
  /\ blocks' = IF 3 \notin DOMAIN blocks THEN blocks
               ELSE Put(blocks, 3, Sector_setAC(blocks[3], block, ac))
  /\ UNCHANGED <<no, keyid>>

\* sector.setKeyA(key)
setKeyA(key) ==
  /\ 3 \in DOMAIN blocks => LenOk(Sector_setKeyA(blocks[3], key))
  /\ Record([op |-> "setKeyA", key |-> key],
            IF 3 \notin DOMAIN blocks THEN Raise(SW) ELSE Returns(<<>>))
  /\ blocks' = IF 3 \notin DOMAIN blocks THEN blocks
               ELSE Put(blocks, 3, Sector_setKeyA(blocks[3], key))
  /\ UNCHANGED <<no, keyid>>

\* sector.setKeyB(key)
setKeyB(key) ==
  /\ 3 \in DOMAIN blocks => LenOk(Sector_setKeyB(blocks[3], key))
  /\ Record([op |-> "setKeyB", key |-> key],
            IF 3 \notin DOMAIN blocks THEN Raise(SW) ELSE Returns(<<>>))
  /\ blocks' = IF 3 \notin DOMAIN blocks THEN blocks
               ELSE Put(blocks, 3, Sector_setKeyB(blocks[3], key))
  /\ UNCHANGED <<no, keyid>>

\* sector.setHeaderDataByte(db)
setHeaderDataByte(db) ==
  /\ 3 \in DOMAIN blocks => LenOk(Sector_setHeaderDataByte(blocks[3], db))
  /\ Record([op |-> "setHeaderDataByte", db |-> db],
            IF 3 \notin DOMAIN blocks THEN Raise(SW) ELSE Returns(<<>>))
  /\ blocks' = IF 3 \notin DOMAIN blocks THEN blocks
               ELSE Put(blocks, 3, Sector_setHeaderDataByte(blocks[3], db))
  /\ UNCHANGED <<no, keyid>>

-----------------------------------------------------------------------------
(* Inputs *)

\* status words the reader answers: 0x9000 and 0x6982
StatusWords == {SW_OK, 27010}

\* the reader's answer to a command that returns no data
NoData(sw) == [sw |-> sw, data |-> <<>>]

CmdAnswers == {NoData(sw) : sw \in StatusWords}

\* the reader's answers to a Read Binary: one of the blocks D, or a failure
ReadAnswers(D) == {[sw |-> SW_OK, data |-> d] : d \in D} \cup {NoData(27010)}

Fill(b) == [k \in 1..16 |-> b]

\* a trailer block: Key A, the access-condition field c, the data byte, Key B
Trailer(keyA, c, db, keyB) == keyA \o ValueOf(c, 3) \o <<db>> \o keyB

\* what the card holds in absolute block b: a trailer in transport
\* configuration (FF0780 69) in the last block of a sector, data elsewhere
CardBlock(b) ==
  IF b % 4 = 3 THEN Trailer(PUBLICKEYS[1], 16713600, 105, PUBLICKEYS[1])
  ELSE Fill(16 + b)

\* key arguments of six bytes
GoodKeys == {PUBLICKEYS[2], PUBLICKEYS[3]}

\* data arguments of update: none, 16 bytes, 15 bytes
GoodData == <<Fill(170)>>
ShortData == <<[k \in 1..15 |-> 187]>>

KeyTypes == {KEY_A, KEY_B}
KeyTypeArgs == {<<>>, <<KEY_A>>, <<KEY_B>>}

-----------------------------------------------------------------------------
(* The checksum: Mifare.crc8 applied to byte strings *)

RefVector ==
  << 1, 1, 8, 1, 8, 1, 8, 0, 0, 0, 0, 0, 0, 4, 0, 3,
     16, 3, 16, 2, 16, 2, 16, 0, 0, 0, 0, 0, 0, 17, 48 >>

CrcBytes == {0, 128, 255}

RECURSIVE SeqsUpTo(_, _)
SeqsUpTo(S, n) ==
  IF n = 0 THEN {<<>>}
  ELSE LET shorter == SeqsUpTo(S, n - 1)
       IN  shorter \cup {Append(q, x) : q \in shorter, x \in S}

\* every single byte, the strings over CrcBytes, and the reference vector
CrcInputs ==
  {<<b>> : b \in 0..255} \cup SeqsUpTo(CrcBytes, MaxCrcLen) \cup {RefVector}

NextCrc == \E data \in CrcInputs : crc8Call(data)

SpecCrc == InitSector0 /\ [][NextCrc]_vars

-----------------------------------------------------------------------------
(* The key ids and authentication *)

KeyIdArgs == {5, 96}

AuthAnswers == [1..4 -> [load : CmdAnswers, auth : CmdAnswers]]

NextKeys ==
  \/ \E kid \in KeyIdArgs, kt \in KeyTypeArgs : setKeyId(kid, kt)
  \/ \E b \in 0..3, kt \in KeyTypes, r \in CmdAnswers : authenticate(b, kt, r)
  \/ \E b \in 0..3, kt \in KeyTypes, rs \in AuthAnswers : authenticatePublic(b, kt, rs)

SpecKeys == Init /\ [][NextKeys]_vars

-----------------------------------------------------------------------------
(* Reading and writing blocks *)

CardAnswers(block) == ReadAnswers({CardBlock(Shl(no, 2) + block)})

NextIO ==
  \/ \E b \in 0..3 : \E r \in CardAnswers(b) : read(b, r)
  \/ \E b \in {0, 3}, d \in {<<>>, GoodData, ShortData}, r \in CmdAnswers : update(b, d, r)
  \/ \E kt \in KeyTypeArgs, ra \in CmdAnswers :
       \E r0 \in CardAnswers(0), r1 \in CardAnswers(1),
          r2 \in CardAnswers(2), r3 \in CardAnswers(3) :
         readAll(kt, ra, <<r0, r1, r2, r3>>)

SpecIO == Init /\ [][NextIO]_vars

-----------------------------------------------------------------------------
(* The access-condition codec on a cached trailer *)

\* fields a card may hold, lawful (FF0780, 7F0788, 0F00FF, F0FF00) or not
PriorFields ==
  {16713600, 8324232, 983295, 15793920, 0, 16777215, 1193046, 11259375, 5614131}

TrailerAnswers ==
  {[sw |-> SW_OK, data |-> Trailer(PUBLICKEYS[1], c, 105, PUBLICKEYS[1])] : c \in PriorFields}

NextAC ==
  \/ \E r \in TrailerAnswers : read(3, r)
  \/ \E b \in 0..3, ac \in 0..7 : setACforBlock(b, ac)

SpecAC == InitSector0 /\ [][NextAC]_vars

-----------------------------------------------------------------------------
(* The trailer editors on a cached trailer, with arguments as documented *)

\* access conditions 001 and 110: each of a block's three bits takes both values
ACArgs == {1, 6}

DataByteArgs == {<<0>>, <<255>>}

NextTrailer ==
  \/ \E r \in CardAnswers(3) : read(3, r)
  \/ \E key \in GoodKeys : setKeyA(key)
  \/ \E key \in GoodKeys : setKeyB(key)
  \/ \E db \in DataByteArgs : setHeaderDataByte(db)
  \/ \E b \in 0..3, ac \in ACArgs : setACforBlock(b, ac)

SpecTrailer == InitSector0 /\ [][NextTrailer]_vars

-----------------------------------------------------------------------------
(* Calls that break a documented precondition, next to calls that keep it *)

\* a data block and an index past the trailer
ErrBlocks == {0, 4}

\* a key of six bytes and one of five
ErrKeys == {PUBLICKEYS[2], <<1, 2, 3, 4, 5>>}

\* the reader accepts every command: the failures here are the caller's
Accepted == NoData(SW_OK)

NextErr ==
  \/ \E kid \in {0, 96}, key \in ErrKeys : loadKey(kid, key, Accepted)
  \/ \E b \in {3, 4} : read(b, [sw |-> SW_OK, data |-> CardBlock(Shl(no, 2) + b)])
  \/ \E b \in {3, 4}, d \in {<<>>, GoodData} : update(b, d, Accepted)
  \/ \E b \in ErrBlocks : authenticate(b, KEY_A, Accepted)
  \/ \E b \in ErrBlocks : getACforBlock(b)
  \/ \E b \in ErrBlocks : setACforBlock(b, 5)
  \/ \E key \in ErrKeys : setKeyA(key)
  \/ \E key \in ErrKeys : setKeyB(key)
  \/ setHeaderDataByte(<<0>>)

SpecErr == InitSector0 /\ [][NextErr]_vars

-----------------------------------------------------------------------------
(* The reference CRC-8 of section 4.1 of the specification, on bit sets:    *)
(* MSB first, initial value 0xC7, polynomial 0x1D                           *)

BitsOf(x) == {k \in 0..7 : (x \div Pow2(k)) % 2 = 1}

RECURSIVE FromBits(_)
FromBits(S) ==
  IF S = {} THEN 0
  ELSE LET k == CHOOSE j \in S : TRUE IN Pow2(k) + FromBits(S \ {k})

RefXor(a, b) == FromBits((BitsOf(a) \ BitsOf(b)) \cup (BitsOf(b) \ BitsOf(a)))

RefRound(crc) ==
  IF 7 \in BitsOf(crc) THEN RefXor((2 * crc) % 256, 29) ELSE (2 * crc) % 256

RefByte(crc, x) ==
  RefRound(RefRound(RefRound(RefRound(RefRound(RefRound(RefRound(RefRound(
    RefXor(crc, x)))))))))

RECURSIVE RefCrc8Upto(_, _)
RefCrc8Upto(data, n) ==
  IF n = 0 THEN 199
  ELSE LET prev == RefCrc8Upto(data, n - 1)
       IN  IF prev \in 0..255 THEN RefByte(prev, data[n]) ELSE prev

RefCrc8(data) == RefCrc8Upto(data, Len(data))

\* C8: Mifare.crc8 returns, for every byte sequence, a value in 0..255 equal
\* to the reference MSB-first CRC-8 (initial value 0xC7, polynomial 0x1D), and
\* 0x89 for the 31-byte reference vector.
C8_Crc8IsReferenceCrc ==
  call.op = "crc8" =>
    /\ ret.thrown = FALSE
    /\ ret.value[1] \in 0..255
    /\ ret.value[1] = RefCrc8(call.data)
    /\ (call.data = RefVector => ret.value[1] = 137)

\* the checksum of the reference vector has been computed
C8_Witness ==
  /\ call.op = "crc8"
  /\ call.data = RefVector
  /\ Len(call.data) = 31
  /\ ret.value = <<137>>

-----------------------------------------------------------------------------
(* Claims about the access-condition codec, under SpecAC *)

\* C2: for every prior field (lawful or not), every block i in 0..3 and every
\* value v in 0..7, after setACforBlock(i, v) getACforBlock(i) returns v and
\* getACforBlock(j) returns what it returned before for the other blocks j.
C2_SetACThenGetAC ==
  [][(call'.op = "setACforBlock" /\ 3 \in DOMAIN blocks) =>
       /\ ret'.thrown = FALSE
       /\ Sector_getAC(blocks'[3], call'.block) = call'.ac
       /\ \A j \in (0..3) \ {call'.block} :
            Sector_getAC(blocks'[3], j) = Sector_getAC(blocks[3], j)]_vars

\* block 2 has just been set to 5 while blocks 0, 1 and 3 hold 3, 0 and 6
C2_Witness ==
  /\ call.op = "setACforBlock"
  /\ ret.thrown = FALSE
  /\ call.block = 2
  /\ call.ac = 5
  /\ Sector_getAC(blocks[3], 0) = 3
  /\ Sector_getAC(blocks[3], 1) = 0
  /\ Sector_getAC(blocks[3], 2) = 5
  /\ Sector_getAC(blocks[3], 3) = 6

\* the k-th hexadecimal digit of the field c, digit 0 the lowest
Nibble(c, k) == (c \div Pow2(4 * k)) % 16

\* the redundancy law: bits 23..20 complement bits 3..0 (C2), bits 19..16
\* complement bits 15..12 (C1), bits 11..8 complement bits 7..4 (C3)
RedundancyLaw(c) ==
  /\ Nibble(c, 5) = 15 - Nibble(c, 0)
  /\ Nibble(c, 4) = 15 - Nibble(c, 3)
  /\ Nibble(c, 2) = 15 - Nibble(c, 1)

\* C3: after setACforBlock(i, v), i in 0..3 and v in 0..7, from any prior
\* field, the stored field satisfies the redundancy law in all three nibble
\* pairs.
C3_RedundancyAfterSetAC ==
  (call.op = "setACforBlock" /\ ret.thrown = FALSE) =>
    /\ Len(blocks[3]) = 16
    /\ ACField(blocks[3]) \in 0..16777215
    /\ RedundancyLaw(ACField(blocks[3]))

\* setACforBlock(3, 1) has stored the lawful field FF0780
C3_Witness ==
  /\ call.op = "setACforBlock"
  /\ ret.thrown = FALSE
  /\ call.block = 3
  /\ call.ac = 1
  /\ ACField(blocks[3]) = 16713600

-----------------------------------------------------------------------------
(* Claims about key ids and authentication, under SpecKeys *)

\* the k-th command of the last call was a Load Key of key under key id kid
IsLoadKey(k, kid, key) ==
  /\ sent[k].cmd.ins = 130
  /\ sent[k].cmd.p2 = kid
  /\ sent[k].cmd.data = key

\* the k-th command of the last call was a General Authenticate against
\* absolute block b with key type keytype
IsAuthenticate(k, b, keytype) ==
  /\ sent[k].cmd.ins = 134
  /\ Len(sent[k].cmd.data) = 5
  /\ 256 * sent[k].cmd.data[2] + sent[k].cmd.data[3] = b
  /\ sent[k].cmd.data[4] = keytype

\* the j-th authentication (j = 0..3) of the last call was sent and succeeded
AuthSucceeded(j) == (2 * (j + 1) <= Len(sent)) /\ (sent[2 * (j + 1)].sw = SW_OK)

\* the j-th authentication of the last call was sent and failed
AuthFailed(j) == (2 * (j + 1) <= Len(sent)) /\ (sent[2 * (j + 1)].sw # SW_OK)

\* C1: authenticatePublic tries the public keys in table order, each attempt
\* one loadKey of that candidate under the sector's key id for keytype and then
\* one authenticate; it returns the index of the first candidate whose
\* authenticate succeeds and sends nothing after that success; it returns -1
\* exactly when all four authentications fail.
C1_AuthenticatePublicFirstMatch ==
  call.op = "authenticatePublic" =>
    /\ Len(sent) <= 8
    /\ \A k \in 1..Len(sent) :
         IF k % 2 = 1
         THEN IsLoadKey(k, KeyIdFor(call.keytype), PUBLICKEYS[(k + 1) \div 2])
         ELSE IsAuthenticate(k, 4 * no + call.block, call.keytype)
    /\ \A j \in 0..3 : AuthSucceeded(j) =>
         /\ Len(sent) = 2 * (j + 1)
         /\ ret.thrown = FALSE
         /\ ret.value = <<j>>
         /\ \A h \in 0..(j - 1) : AuthFailed(h)
    /\ (ret.thrown = FALSE /\ ret.value = <<-1>>) <=> (\A j \in 0..3 : AuthFailed(j))
    /\ ret.thrown = FALSE => (ret.value = <<-1>> \/ \E j \in 0..3 : AuthSucceeded(j))

\* the third candidate (default Key B) authenticated after two failures
C1_Witness ==
  /\ call.op = "authenticatePublic"
  /\ call.keytype = KEY_B
  /\ ret.thrown = FALSE
  /\ ret.value = <<2>>
  /\ Len(sent) = 6
  /\ AuthFailed(0) /\ AuthFailed(1) /\ AuthSucceeded(2)

\* the key id byte of the General Authenticate payload for key id k
ReaderKeyId(k) == IF k = 96 \/ k = 97 THEN 1 ELSE k

\* C9: after any sequence of setKeyId calls, authenticate passes the internal
\* key id k for Key A and k + 1 for Key B: the key id used for Key B is the
\* key id used for Key A plus one.
C9_KeyBIdIsKeyAIdPlusOne ==
  call.op = "authenticate" =>
    sent[1].cmd.data[5] =
      ReaderKeyId(IF call.keytype = KEY_A THEN keyid[1] ELSE keyid[1] + 1)

-----------------------------------------------------------------------------
(* Claims about reading and writing blocks, under SpecIO *)

\* the k-th command of the last call was a Read Binary of absolute block b
IsReadBinary(k, b) ==
  /\ sent[k].cmd.ins = 176
  /\ 256 * sent[k].cmd.p1 + sent[k].cmd.p2 = b
  /\ sent[k].cmd.le = 16

\* the key type readAll(keytype) is to use
ReadAllKeyType == IF call.keytype = <<>> THEN KEY_A ELSE call.keytype[1]

\* the commands of one readAll, as far as they were sent: one authenticate
\* against block 4*no+0, then reads of blocks 4*no+0, 4*no+1, ... in order
ReadAllCommands ==
  /\ Len(sent) \in 1..5
  /\ IsAuthenticate(1, 4 * no, ReadAllKeyType)
  /\ \A k \in 2..Len(sent) : IsReadBinary(k, 4 * no + (k - 2))

C7_FailedUpdateLeavesCache ==
  [][(call'.op = "update" /\ call'.data # <<>> /\ ret'.thrown = TRUE) =>
       blocks' = blocks]_vars

\* C10: readAll sends a Read Binary only if its authenticate returned true;
\* when the authentication fails it sends no read and changes no cached block.
C10_ReadAllChecksAuthentication ==
  [][(call'.op = "readAll" /\ sent'[1].sw # SW_OK) =>
       (Len(sent') = 1 /\ blocks' = blocks)]_vars

-----------------------------------------------------------------------------
(* Claims about the trailer editors, under SpecTrailer *)

\* the last call was a trailer editor with arguments as documented
EditorCall(c) ==
  \/ c.op = "setKeyA" /\ Len(c.key) = 6
  \/ c.op = "setKeyB" /\ Len(c.key) = 6
  \/ c.op = "setHeaderDataByte" /\ Len(c.db) = 1
  \/ c.op = "setACforBlock" /\ c.block \in 0..3 /\ c.ac \in 0..7

\* the byte offsets (0..15) of the trailer that the editor may change
EditorRange(c) ==
  IF c.op = "setKeyA" THEN 0..5
  ELSE IF c.op = "setKeyB" THEN 10..15
  ELSE IF c.op = "setHeaderDataByte" THEN {9}
  ELSE 6..8

\* what the editor is to store in its range
EditorStores(c, d) ==
  IF c.op = "setKeyA" THEN Bytes(d, 0, 6) = c.key
  ELSE IF c.op = "setKeyB" THEN Bytes(d, 10, 6) = c.key
  ELSE IF c.op = "setHeaderDataByte" THEN Bytes(d, 9, 1) = c.db
  ELSE Sector_getAC(d, c.block) = c.ac

\* C5: with a 16-byte trailer cached, setKeyA(6-byte key) changes only bytes
\* 0..5, setKeyB(6-byte key) only bytes 10..15, setHeaderDataByte(1-byte db)
\* only byte 9 and setACforBlock(i, v) only bytes 6..8; the trailer keeps its
\* length of 16 and no command is sent to the reader.
C5_EditorsChangeOnlyTheirBytes ==
  [][(EditorCall(call') /\ 3 \in DOMAIN blocks /\ Len(blocks[3]) = 16) =>
       /\ ret'.thrown = FALSE
       /\ sent' = <<>>
       /\ SW' = SW
       /\ DOMAIN blocks' = DOMAIN blocks
       /\ Len(blocks'[3]) = 16
       /\ \A k \in (0..15) \ EditorRange(call') : blocks'[3][k + 1] = blocks[3][k + 1]
       /\ EditorStores(call', blocks'[3])]_vars

\* setKeyB has stored the default Key B in bytes 10..15 of a trailer whose Key
\* A, access conditions and data byte had been edited before
C5_Witness ==
  /\ call.op = "setKeyB"
  /\ ret.thrown = FALSE
  /\ Len(blocks[3]) = 16
  /\ Bytes(blocks[3], 0, 6) = PUBLICKEYS[2]
  /\ Sector_getAC(blocks[3], 1) = 6
  /\ Bytes(blocks[3], 9, 1) = <<0>>
  /\ Bytes(blocks[3], 10, 6) = PUBLICKEYS[3]

-----------------------------------------------------------------------------
(* Claims about precondition violations, under SpecErr *)

\* the call c, made in the current state, breaks a precondition: a key that
\* is not 6 bytes, a block index outside 0..3, or a block that is not cached
Violation(c) ==
  \/ c.op \in {"loadKey", "setKeyA", "setKeyB"} /\ Len(c.key) # 6
  \/ c.op \in {"read", "update", "authenticate", "getACforBlock", "setACforBlock"}
       /\ c.block \notin 0..3
  \/ c.op = "update" /\ c.data = <<>> /\ c.block \notin DOMAIN blocks
  \/ c.op \in {"getACforBlock", "setACforBlock", "setKeyA", "setKeyB",
               "setHeaderDataByte"}
       /\ 3 \notin DOMAIN blocks

\* C6: every operation called with a precondition violation fails at once
\* with an error: it does not complete normally, sends no reader command and
\* changes no cached block.
C6_ViolationsFailAtOnce ==
  [][Violation(call') =>
       (ret'.thrown = TRUE /\ sent' = <<>> /\ blocks' = blocks)]_vars

====
